---- MODULE Spec2Model ----
(***************************************************************************)
(* A model of nagios/plugin.py (sysadm): the threshold range parser and    *)
(* its evaluation, the warning/critical threshold pair, the performance    *)
(* data set, the life of one plugin process (construction, the check       *)
(* wrapped by UnhandledExceptionHandler, die, and the SIGALRM timeout),    *)
(* the verbosity computed by NagiosArgParser.parse_args, and the check of  *)
(* NagiosPluginFactory.                                                    *)
(*                                                                         *)
(* Python strings are sequences of one-character strings, Python objects   *)
(* are records of their attributes, and the outcome of a call is either    *)
(* Return(v) or Raise(exception name).                                     *)
(***************************************************************************)
EXTENDS Integers, Sequences, FiniteSets, TLC

(***************************************************************************)
(* Bounds of the model.                                                    *)
(***************************************************************************)
\* longest range expression enumerated by the range specification
MaxLen == 4
\* values checked against a range are the integers -MaxVal..MaxVal
MaxVal == 12
\* most labels added to one performance set
MaxLabels == 2
\* performance values are the integers 0..MaxPerfVal (and one str)
MaxPerfVal == 11
\* the -t option takes the values 0, 0.5, 1, ... MaxTimeoutHalves / 2 seconds
MaxTimeoutHalves == 3
\* -v is repeated 0..MaxVerbose times on the command line
MaxVerbose == 105
\* a check function returns 0..MaxResponses (value, message) pairs
MaxResponses == 2

(***************************************************************************)
(* Python values.                                                          *)
(***************************************************************************)
\* Python's None where a string is expected: no string over Alphabet
None == <<"None">>

\* the characters range expressions are built from
Alphabet == {"@", "~", ":", "-", "0", "1", "x"}

Return(v) == [exc |-> "none", ret |-> v]

Raise(e) == [exc |-> e]

\* an int (or an integral float) and a str, as check_range's type test and
\* the %0.2f conversion tell them apart
PyNum(n) == [type |-> "number", val |-> n]

PyStr == [type |-> "str"]

IsNumber(value) == value.type = "number"

(***************************************************************************)
(* float(s) for a string over Alphabet: an optional '-' and one or more    *)
(* digits; every other string over Alphabet raises ValueError.             *)
(***************************************************************************)
Digit(c) == IF c = "1" THEN 1 ELSE 0

IsDigits(s) == Len(s) > 0 /\ \A i \in 1..Len(s) : s[i] \in {"0", "1"}

RECURSIVE DigitsValue(_)
DigitsValue(s) ==
    IF Len(s) = 0 THEN 0
    ELSE 10 * DigitsValue(SubSeq(s, 1, Len(s) - 1)) + Digit(s[Len(s)])

IsFloat(s) ==
    /\ Len(s) > 0
    /\ IF s[1] = "-" THEN IsDigits(Tail(s)) ELSE IsDigits(s)

FloatOf(s) == IF s[1] = "-" THEN 0 - DigitsValue(Tail(s)) ELSE DigitsValue(s)

\* str.split(':'): the pieces between the colons, in order
RECURSIVE Split(_)
Split(s) ==
    IF \A i \in 1..Len(s) : s[i] # ":" THEN <<s>>
    ELSE LET k == CHOOSE i \in 1..Len(s) :
                      s[i] = ":" /\ \A j \in 1..(i - 1) : s[j] # ":"
         IN  <<SubSeq(s, 1, k - 1)>> \o Split(SubSeq(s, k + 1, Len(s)))

(***************************************************************************)
(* NagiosRange                                                             *)
(***************************************************************************)
\* the attributes __init__ sets before it parses
RangeDefaults(range, type) ==
    [range |-> range, type |-> type,
     start |-> 0, start_infinity |-> FALSE,
     end |-> 0, end_infinity |-> TRUE,
     inside |-> FALSE]

\* a bug that accepts a non-numeric end as if it were empty
EndIsNotEmpty_Never(end) == FALSE

\* `end is not ''` (CPython shares one empty str object, so the identity
\* test is the comparison with the empty string)
EndIsNotEmpty(end) == end # <<>>

\* a bug that keeps the stripped text as the range definition
AfterAt_Strip(self) == [self EXCEPT !.inside = TRUE, !.range = Tail(self.range)]

\* a leading '@': self.inside = True; only the local copy of the text is
\* stripped, self.range stays
AfterAt(self) == [self EXCEPT !.inside = TRUE]

\* __parse_range on the object self: Return(the object parsed) or
\* Raise("NagiosPluginError: ...")
parse_range(self) ==
    IF self.range = None THEN Return(self)
    ELSE
    LET at    == Len(self.range) > 0 /\ self.range[1] = "@"
        s1    == IF at THEN AfterAt(self) ELSE self
        range == IF at THEN Tail(self.range) ELSE self.range
        parts == Split(range)
    IN  IF Len(parts) # 2
        THEN \* start, end = range.split(':') raises ValueError
             IF IsFloat(range)
             THEN Return([s1 EXCEPT !.end = FloatOf(range),
                                    !.end_infinity = FALSE])
             ELSE Raise("NagiosPluginError: Invalid range definition")
        ELSE LET start == parts[1]
                 end   == parts[2]
                 s2    == IF start = <<"~">>
                          THEN [s1 EXCEPT !.start_infinity = TRUE]
                          ELSE IF IsFloat(start)
                               THEN [s1 EXCEPT !.start = FloatOf(start)]
                               ELSE s1
             IN  IF start # <<"~">> /\ ~IsFloat(start)
                 THEN Raise("NagiosPluginError: Invalid start value")
                 ELSE IF IsFloat(end)
                      THEN Return([s2 EXCEPT !.end = FloatOf(end),
                                             !.end_infinity = FALSE])
                      ELSE IF EndIsNotEmpty(end)
                           THEN Raise("NagiosPluginError: Invalid end value")
                           ELSE Return(s2)

\* NagiosRange(range, type): the constructor
NagiosRange(range, type) == parse_range(RangeDefaults(range, type))

\* a bug that excludes the upper endpoint
InBoth_Strict(start, v, end) == start <= v /\ v < end

\* start <= value <= end
InBoth(start, v, end) == start <= v /\ v <= end

\* a bug that drops the test for a disabled range
IsDisabled_Never(self) == FALSE

\* self.range is None
IsDisabled(self) == self.range = None

\* a bug that ignores the '@' of the range
Polarity_Outside(inside, inrange) == ~inrange

\* if self.inside: return inrange, else: return not inrange
Polarity(inside, inrange) == IF inside THEN inrange ELSE ~inrange

\* NagiosRange.check_range(value)
check_range(self, value) ==
    IF ~IsNumber(value) THEN Raise("ValueError")
    ELSE IF IsDisabled(self) THEN Return(FALSE)
    ELSE LET v == value.val IN
         IF ~self.start_infinity /\ ~self.end_infinity
         THEN LET inrange == InBoth(self.start, v, self.end)
              IN  Return(Polarity(self.inside, inrange))
         ELSE IF ~self.start_infinity /\ self.end_infinity
         THEN LET inrange == self.start <= v
              IN  Return(Polarity(self.inside, inrange))
         ELSE IF self.start_infinity /\ ~self.end_infinity
         THEN LET inrange == v <= self.end
              IN  Return(Polarity(self.inside, inrange))
         ELSE \* no branch binds inrange
              Raise("UnboundLocalError")

\* NagiosRange.__str__
RangeStr(self) == IF self.range = None THEN <<>> ELSE self.range

(***************************************************************************)
(* NagiosPerfLabel and NagiosPerformance                                   *)
(***************************************************************************)
\* NagiosPerfLabel.allowed_uoms
allowed_uoms == {"", "s", "us", "ms", "%", "B", "KB", "MB", "GB", "TB", "c"}

\* a bug that validates the unit whether or not strict is set
UomRejected_Always(strict, uom) == uom \notin allowed_uoms

\* if strict and self.uom not in self.allowed_uoms
UomRejected(strict, uom) == strict /\ uom \notin allowed_uoms

\* NagiosPerfLabel(label, value, uom, warn, crit, min, max, strict)
NagiosPerfLabel(label, value, uom, warn, crit, min, max, strict) ==
    IF UomRejected(strict, uom)
    THEN Raise("NagiosPluginError: Invalid UOM")
    ELSE Return([label |-> label, value |-> value, uom |-> uom,
                 warn |-> warn, crit |-> crit, min |-> min, max |-> max])

\* label == obj for a str label and a NagiosPerfLabel obj: the class defines
\* no __eq__, so the comparison is by identity and a str is never the object
StrEqualsLabelObject(label, obj) == FALSE

\* `label in self.labels`: self.labels holds NagiosPerfLabel objects
LabelInLabels(label, labels) ==
    \E i \in 1..Len(labels) : StrEqualsLabelObject(label, labels[i])

\* NagiosPerformance.add_label on the list labels: the outcome of the call
\* and the list after it
add_label(labels, label, value, uom, warn, crit, min, max, strict) ==
    IF LabelInLabels(label, labels)
    THEN [res |-> Raise("NagiosPluginError: Performance labels must be unique"),
          labels |-> labels]
    ELSE LET new == NagiosPerfLabel(label, value, uom, warn, crit,
                                    min, max, strict)
         IN  IF new.exc # "none"
             THEN [res |-> new, labels |-> labels]
             ELSE [res |-> Return(None), labels |-> Append(labels, new.ret)]

\* the decimal digits of a natural number
RECURSIVE Decimal(_)
Decimal(n) ==
    LET d == <<"0", "1", "2", "3", "4", "5", "6", "7", "8", "9">>[(n % 10) + 1]
    IN  IF n < 10 THEN <<d>> ELSE Decimal(n \div 10) \o <<d>>

\* '%0.2f' % n for an integral n
Format2f(n) ==
    (IF n < 0 THEN <<"-">> \o Decimal(0 - n) ELSE Decimal(n))
        \o <<".", "0", "0">>

\* a format that leaves out a field, with its ';', when the field is empty
FormatLabel_DropEmpty(l) ==
    LET field(f) == IF f = "" THEN <<>> ELSE <<";", f>>
    IN  IF ~IsNumber(l.value) THEN Raise("TypeError")
        ELSE Return(<<"'", l.label, "'=">> \o Format2f(l.value.val)
                    \o <<l.uom>> \o field(l.warn) \o field(l.crit)
                    \o field(l.min) \o field(l.max))

\* NagiosPerformance._fmt % label.__dict__: the pieces of one entry
\* "'%(label)s'=%(value)0.2f%(uom)s;%(warn)s;%(crit)s;%(min)s;%(max)s";
\* %0.2f of a value that is no number raises TypeError
FormatLabel(l) ==
    IF ~IsNumber(l.value) THEN Raise("TypeError")
    ELSE Return(<<"'", l.label, "'=">> \o Format2f(l.value.val)
                \o <<l.uom, ";", l.warn, ";", l.crit, ";", l.min, ";", l.max>>)

\* ' '.join(o)
RECURSIVE JoinSpace(_)
JoinSpace(o) ==
    IF Len(o) = 0 THEN <<>>
    ELSE IF Len(o) = 1 THEN o[1]
    ELSE o[1] \o <<" ">> \o JoinSpace(Tail(o))

\* NagiosPerformance.format_performance
format_performance(labels) ==
    IF Len(labels) > 0
    THEN IF \E i \in 1..Len(labels) : FormatLabel(labels[i]).exc # "none"
         THEN Raise("TypeError")
         ELSE Return(<<"|">> \o
                     JoinSpace([i \in 1..Len(labels) |-> FormatLabel(labels[i]).ret]))
    ELSE Return(<<>>)

(***************************************************************************)
(* NagiosThresholds and NagiosPlugin.check_thresholds                      *)
(***************************************************************************)
\* nagios return codes
OK == 0

WARN == 1

CRIT == 2

UNKN == 3

IsPluginError(r) ==
    r.exc \in {"NagiosPluginError: Invalid range definition",
               "NagiosPluginError: Invalid start value",
               "NagiosPluginError: Invalid end value"}

\* a bug that lets the parse error out of the constructor
RangeOrDisabled_Propagate(range, type) == NagiosRange(range, type)

\* try: NagiosRange(range, type)
\* except NagiosPluginError: log it at LOG2, NagiosRange(None, type)
RangeOrDisabled(range, type) ==
    LET r == NagiosRange(range, type)
    IN  IF IsPluginError(r) THEN NagiosRange(None, type) ELSE r

\* NagiosThresholds(warningRange, criticalRange)
NagiosThresholds(warningRange, criticalRange) ==
    LET w == RangeOrDisabled(warningRange, "warning")
        c == RangeOrDisabled(criticalRange, "critical")
    IN  IF w.exc # "none" THEN w
        ELSE IF c.exc # "none" THEN c
        ELSE Return([warning |-> w.ret, critical |-> c.ret])

\* NagiosPlugin.check_thresholds(value); self.critical and self.warning are
\* the ranges __init__ bound, never None
check_thresholds(self, value) ==
    LET c == check_range(self.critical, value)
    IN  IF c.exc # "none" THEN c
        ELSE IF c.ret THEN Return(CRIT)
        ELSE LET w == check_range(self.warning, value)
             IN  IF w.exc # "none" THEN w
                 ELSE IF w.ret THEN Return(WARN)
                 ELSE Return(OK)

(***************************************************************************)
(* NagiosPlugin: construction, die, the SIGALRM handler.  Seconds are      *)
(* counted in halves, so that a float -t such as 0.5 or 1.5 can be given.  *)
(***************************************************************************)
\* NagiosPlugin.codewords
codewords == (OK :> "OK") @@ (WARN :> "WARNING") @@ (CRIT :> "CRITICAL")
                 @@ (UNKN :> "UNKNOWN")

\* camel_to_under(self.__class__.__name__) of the running plugin
Service == "example_plugin"

\* signal_timeout: options.timeout + 1 with network, else options.timeout
signal_timeout(timeout, network) ==
    IF network THEN timeout + 2 ELSE timeout

\* int(signal_timeout), in whole seconds
IntSeconds(halves) == halves \div 2

\* a bug that prints the code's word on the timeout path too
StatusWord_Codeword(code, cancel_alarm) == codewords[code]

\* the status die hands to __format_dict: self.codewords[code], or the
\* literal 'SIGALRM' when die is not to cancel the alarm
StatusWord(code, cancel_alarm) ==
    IF cancel_alarm THEN codewords[code] ELSE "SIGALRM"

\* NagiosPlugin.die(code, info, cancel_alarm) after its signal.alarm(0):
\* __format_dict calls format_performance, the line is logged at LOG0 and
\* sys.exit(code) raises SystemExit; a TypeError of format_performance
\* leaves die before anything is logged
die(perfLabels, code, info, cancel_alarm) ==
    LET perf == format_performance(perfLabels)
    IN  IF perf.exc # "none"
        THEN [exc |-> perf.exc, code |-> 1, lines |-> <<>>]
        ELSE [exc |-> "SystemExit", code |-> code,
              lines |-> <<[kind |-> "status", service |-> Service,
                           status |-> StatusWord(code, cancel_alarm),
                           info |-> info, perf |-> perf.ret]>>]

\* 'Plugin timed out after %0.2f second%s.' % (timeout, plural)
TimeoutInfo(timeout) ==
    [kind |-> "timed out", halves |-> timeout, plural |-> timeout > 2]

\* NagiosPlugin.__handle_sigalrm: reads self.options, then dies CRIT
\* without cancelling the alarm
handle_sigalrm(bound, opts, perfLabels) ==
    IF "options" \notin bound
    THEN [exc |-> "AttributeError", code |-> 1, lines |-> <<>>]
    ELSE die(perfLabels, CRIT, TimeoutInfo(opts.timeout), FALSE)

\* how the interpreter ends on an exception nobody catches: SystemExit
\* gives its code; anything else prints a traceback and gives 1
Uncaught(e) ==
    IF e.exc = "SystemExit" THEN [code |-> e.code, traceback |-> FALSE]
    ELSE [code |-> 1, traceback |-> TRUE]

(***************************************************************************)
(* NagiosPluginFactory.check                                               *)
(***************************************************************************)
\* the one-argument templates used as messages
StatusTemplate == "%(status)s"

\* __format_message: message % dict(status=codewords[code], value=value,
\* code=code); a message without a conversion is left as it is
format_message(message, value, code) ==
    IF message = StatusTemplate THEN codewords[code] ELSE message

\* ', '.join(messages)
RECURSIVE JoinComma(_)
JoinComma(m) ==
    IF Len(m) = 0 THEN <<>>
    ELSE IF Len(m) = 1 THEN <<m[1]>>
    ELSE <<m[1], ", ">> \o JoinComma(Tail(m))

\* x put into the ascending list c
RECURSIVE Insert(_, _)
Insert(x, c) ==
    IF Len(c) = 0 THEN <<x>>
    ELSE IF x <= c[1] THEN <<x>> \o c
    ELSE <<c[1]>> \o Insert(x, Tail(c))

\* codes.sort()
RECURSIVE Sort(_)
Sort(c) == IF Len(c) = 0 THEN <<>> ELSE Insert(c[1], Sort(Tail(c)))

\* a bug that leaves the sorted list ascending
Reverse_None(c) == c

\* codes.reverse()
Reverse(c) == [i \in 1..Len(c) |-> c[Len(c) + 1 - i]]

TooFewValues == Raise("NagiosPluginError: Too few values")

\* the perf_labels loop from index i on: label i is added with the value of
\* response i; a label without a response raises NagiosPluginError
RECURSIVE AddPerfLabels(_, _, _, _)
AddPerfLabels(perfLabels, names, resp, i) ==
    IF i > Len(names) THEN [res |-> Return(None), labels |-> perfLabels]
    ELSE IF i > Len(resp) THEN [res |-> TooFewValues, labels |-> perfLabels]
    ELSE LET r == add_label(perfLabels, names[i], resp[i].value,
                            "", "", "", "", "", FALSE)
         IN  IF r.res.exc # "none" THEN r
             ELSE AddPerfLabels(r.labels, names, resp, i + 1)

\* the loop over the responses: the codes and the formatted messages, or
\* what the first failing check_thresholds raises
Classified(thr, resp) ==
    LET code(i) == check_thresholds(thr, resp[i].value)
        failing == {i \in 1..Len(resp) : code(i).exc # "none"}
    IN  IF failing # {}
        THEN code(CHOOSE i \in failing : \A j \in failing : i <= j)
        ELSE Return([codes    |-> [i \in 1..Len(resp) |-> code(i).ret],
                     messages |-> [i \in 1..Len(resp) |->
                                      format_message(resp[i].message,
                                                     resp[i].value,
                                                     code(i).ret)]])

MessagesInfo(messages) == [kind |-> "messages", text |-> JoinComma(messages)]

\* the end of check: the classification, codes.sort(); codes.reverse();
\* self.plugin.die(codes[0], ', '.join(messages)).  called tells whether
\* die was entered (and cancelled the alarm)
factory_die(perfLabels, thr, resp) ==
    LET c == Classified(thr, resp)
    IN  IF c.exc # "none"
        THEN [called |-> FALSE, exc |-> c.exc, code |-> 1, lines |-> <<>>]
        ELSE LET codes == Reverse(Sort(c.ret.codes))
                 d     == die(perfLabels, codes[1],
                              MessagesInfo(c.ret.messages), TRUE)
             IN  IF Len(codes) = 0
                 THEN [called |-> FALSE, exc |-> "IndexError", code |-> 1,
                       lines |-> <<>>]
                 ELSE [called |-> TRUE, exc |-> d.exc, code |-> d.code,
                       lines |-> d.lines]

(***************************************************************************)
(* NagiosArgParser.parse_args: the verbosity.                              *)
(***************************************************************************)
\* the log levels
LOG0 == 103
LOG1 == 102
LOG2 == 101
LOG3 == 100

NoneType == [type |-> "NoneType"]

\* optparse's action='count' with no default: None when -v is absent, else
\* the number of times it was given
CountOption(n) == IF n = 0 THEN NoneType ELSE PyNum(n)

\* parse_args: options.verbosity after the call, -v given n times
parse_args(n) ==
    LET counted  == CountOption(n)
        verbose  == IF counted = NoneType THEN 0 ELSE counted.val
        capped   == IF verbose > 103 THEN 103 ELSE verbose
    IN  Return(LOG0 - capped)

(***************************************************************************)
(* State.                                                                  *)
(***************************************************************************)
VARIABLES
    rangeArg,   \* the expression given to NagiosRange(...)
    rangeNew,   \* outcome of NagiosRange(rangeArg): "pending", or Return/Raise
    checkArg,   \* the value last given to check_range
    checkRes,   \* outcome of that check_range call ("pending" before any)
    strRes,     \* outcome of the last str(range) ("pending" before any)
    thrArgs,    \* <<warningRange, criticalRange>> given to NagiosThresholds
    thrNew,     \* outcome of NagiosThresholds(...): "pending", or Return/Raise
    thrValue,   \* the value last given to check_thresholds
    thrCode,    \* outcome of that check_thresholds call
    labels,     \* NagiosPerformance.labels
    addArgs,    \* the arguments of the last add_label call
    addRes,     \* outcome of the last add_label call
    fmtRes,     \* outcome of the last format_performance call
    pc,         \* where the plugin process is
    options,    \* the parsed command line (options.warning, .critical, ...)
    network,    \* NagiosPlugin(parser, network)
    bound,      \* the attributes of the plugin object bound so far
    alarm,      \* the SIGALRM timer: "off", "armed" or "fired"
    thresholds, \* self.thresholds (self.warning, self.critical alias it)
    caught,     \* the exception the wrapper's bare except caught, or "none"
    stdout,     \* the lines logged at LOG0
    exit,       \* the exit status of the process
    \* NagiosArgParser.parse_args
    argv,       \* the number of -v on the command line
    parsed,     \* options.verbosity after parse_args ("pending" before)
    \* NagiosPluginFactory.check
    perf_labels, \* the perf_labels argument of check
    responses   \* what the check function returned ("pending" before)

rangeVars == <<rangeArg, rangeNew, checkArg, checkRes, strRes>>

thrVars == <<thrArgs, thrNew, thrValue, thrCode>>

perfVars == <<labels, addArgs, addRes, fmtRes>>

procVars == <<pc, options, network, bound, alarm, thresholds, caught,
              stdout, exit>>

argVars == <<argv, parsed>>

factVars == <<perf_labels, responses>>

vars == <<rangeVars, thrVars, perfVars, procVars, argVars, factVars>>

Pending == [exc |-> "pending"]

\* every string over Alphabet of at most MaxLen characters, and None
RangeArgs ==
    {None} \cup UNION {[1..n -> Alphabet] : n \in 0..MaxLen}

Values == {PyNum(n) : n \in (0 - MaxVal)..MaxVal} \cup {PyStr}

(***************************************************************************)
(* The range specification: construct one NagiosRange, then check values   *)
(* against it.                                                             *)
(***************************************************************************)
\* the state of the range objects before any is made
RangeIdle ==
    /\ rangeArg = None
    /\ rangeNew = Pending
    /\ checkArg = PyStr
    /\ checkRes = Pending
    /\ strRes = Pending

\* the state of the thresholds before any is made
ThrIdle ==
    /\ thrArgs = <<None, None>>
    /\ thrNew = Pending
    /\ thrValue = PyStr
    /\ thrCode = Pending

NoArgs == [label |-> "", value |-> PyStr, uom |-> "", warn |-> "",
           strict |-> FALSE]

\* NagiosPerformance.__init__, before any call
PerfIdle ==
    /\ labels = <<>>
    /\ addArgs = NoArgs
    /\ addRes = Pending
    /\ fmtRes = Pending

Running == [code |-> 0 - 1, traceback |-> FALSE]

NoThresholds == [warning |-> RangeDefaults(None, "warning"),
                 critical |-> RangeDefaults(None, "critical")]

\* no plugin process
ProcIdle ==
    /\ pc = "none"
    /\ options = [warning |-> None, critical |-> None, timeout |-> 0,
                  version |-> FALSE]
    /\ network = FALSE
    /\ bound = {}
    /\ alarm = "off"
    /\ thresholds = NoThresholds
    /\ caught = "none"
    /\ stdout = <<>>
    /\ exit = Running

ArgIdle ==
    /\ argv = 0
    /\ parsed = Pending

FactIdle ==
    /\ perf_labels = <<>>
    /\ responses = Pending

RangeInit ==
    /\ rangeArg \in RangeArgs
    /\ rangeNew = Pending
    /\ checkArg = PyStr
    /\ checkRes = Pending
    /\ strRes = Pending
    /\ ThrIdle
    /\ PerfIdle
    /\ ProcIdle
    /\ ArgIdle
    /\ FactIdle

NewRange ==
    /\ rangeNew = Pending
    /\ rangeNew' = NagiosRange(rangeArg, "unknown")
    /\ UNCHANGED <<rangeArg, checkArg, checkRes, strRes,
                   thrVars, perfVars, procVars>>
    /\ UNCHANGED <<argVars, factVars>>

CheckRange ==
    /\ rangeNew.exc = "none"
    /\ checkRes = Pending
    /\ \E value \in Values :
          /\ checkArg' = value
          /\ checkRes' = check_range(rangeNew.ret, value)
    /\ UNCHANGED <<rangeArg, rangeNew, strRes, thrVars, perfVars, procVars>>
    /\ UNCHANGED <<argVars, factVars>>

\* str(range), before or after a check
StrRange ==
    /\ rangeNew.exc = "none"
    /\ strRes = Pending
    /\ strRes' = Return(RangeStr(rangeNew.ret))
    /\ UNCHANGED <<rangeArg, rangeNew, checkArg, checkRes,
                   thrVars, perfVars, procVars>>
    /\ UNCHANGED <<argVars, factVars>>

RangeNext == NewRange \/ CheckRange \/ StrRange

SpecRange == RangeInit /\ [][RangeNext]_vars

(***************************************************************************)
(* The thresholds specification: construct one NagiosThresholds from a     *)
(* pair of expressions, then classify values with check_thresholds.        *)
(***************************************************************************)
\* the expressions given as -w and -c: absent, each form of the grammar,
\* '~:', and malformed ones
ThresholdExprs ==
    {None,
     <<"1">>, <<"1", "0">>, <<"1", ":">>, <<"-", "1", ":", "1">>,
     <<"~", ":", "1">>, <<"~", ":">>, <<"@", "1", ":", "1", "0">>,
     <<"@", "0">>, <<"x">>, <<"1", ":", "1", "@">>, <<"1", "0", ":", "1">>}

ThrInit ==
    /\ thrArgs \in ThresholdExprs \X ThresholdExprs
    /\ thrNew = Pending
    /\ thrValue = PyStr
    /\ thrCode = Pending
    /\ RangeIdle
    /\ PerfIdle
    /\ ProcIdle
    /\ ArgIdle
    /\ FactIdle

NewThresholds ==
    /\ thrNew = Pending
    /\ thrNew' = NagiosThresholds(thrArgs[1], thrArgs[2])
    /\ UNCHANGED <<thrArgs, thrValue, thrCode, rangeVars, perfVars, procVars>>
    /\ UNCHANGED <<argVars, factVars>>

CheckThresholds ==
    /\ thrNew.exc = "none"
    /\ thrCode = Pending
    /\ \E value \in Values :
          /\ thrValue' = value
          /\ thrCode' = check_thresholds(thrNew.ret, value)
    /\ UNCHANGED <<thrArgs, thrNew, rangeVars, perfVars, procVars>>
    /\ UNCHANGED <<argVars, factVars>>

ThrNext == NewThresholds \/ CheckThresholds

SpecThresholds == ThrInit /\ [][ThrNext]_vars

(***************************************************************************)
(* The performance specification: one NagiosPerformance, labels added to   *)
(* it and the set formatted.                                               *)
(***************************************************************************)
LabelNames == {"temp", "load"}

PerfValues == {PyNum(0), PyNum(MaxPerfVal), PyStr}

Uoms == {"", "ms", "S"}

Warns == {"", "5"}

PerfInit ==
    /\ PerfIdle
    /\ RangeIdle
    /\ ThrIdle
    /\ ProcIdle
    /\ ArgIdle
    /\ FactIdle

AddLabel ==
    /\ Len(labels) < MaxLabels
    /\ \E label \in LabelNames, value \in PerfValues, uom \in Uoms,
          warn \in Warns, strict \in BOOLEAN :
          LET r == add_label(labels, label, value, uom, warn, "", "", "",
                             strict)
          IN  /\ labels' = r.labels
              /\ addRes' = r.res
              /\ addArgs' = [label |-> label, value |-> value, uom |-> uom,
                             warn |-> warn, strict |-> strict]
    /\ fmtRes' = Pending
    /\ UNCHANGED <<rangeVars, thrVars, procVars>>
    /\ UNCHANGED <<argVars, factVars>>

FormatPerformance ==
    /\ fmtRes = Pending
    /\ fmtRes' = format_performance(labels)
    /\ UNCHANGED <<labels, addArgs, addRes, rangeVars, thrVars, procVars>>
    /\ UNCHANGED <<argVars, factVars>>

PerfNext == AddLabel \/ FormatPerformance

SpecPerf == PerfInit /\ [][PerfNext]_vars

(***************************************************************************)
(* The plugin process (Spec): NagiosPlugin.__init__, then the check method *)
(* wrapped by UnhandledExceptionHandler, with the SIGALRM handler running  *)
(* between any two steps of the main thread while the alarm is armed.      *)
(* The check is a subclass's: it adds performance labels, may block in a   *)
(* call that does not return, may raise, and ends by calling               *)
(* self.die(self.check_thresholds(value), info), as ExamplePlugin does.    *)
(***************************************************************************)
PluginWarnings == {None, <<"1">>, <<"~", ":">>}

PluginCriticals == {None, <<"1", "0">>, <<"x">>}

Timeouts == 0..MaxTimeoutHalves

\* the values the check measures
CheckValues == {PyNum(0), PyNum(5), PyNum(MaxPerfVal)}

\* the values the check records as performance data
CheckLabelValues == {PyNum(0), PyStr}

CheckInfo == [kind |-> "check"]

TracebackInfo == [kind |-> "traceback"]

Init ==
    /\ pc = "start"
    /\ options \in [warning : PluginWarnings, critical : PluginCriticals,
                     timeout : Timeouts, version : BOOLEAN]
    /\ network \in BOOLEAN
    /\ bound = {}
    /\ alarm = "off"
    /\ thresholds = NoThresholds
    /\ caught = "none"
    /\ stdout = <<>>
    /\ exit = Running
    /\ RangeIdle /\ ThrIdle /\ PerfIdle
    /\ ArgIdle /\ FactIdle

\* the process ends with the exception e uncaught, after logging lines
Terminate(e) ==
    /\ pc' = "exited"
    /\ stdout' = stdout \o e.lines
    /\ exit' = Uncaught(e)

\* __init__ up to signal.alarm: the performance set, the options, -V, the
\* socket timeout, the handler and the alarm
InitToAlarm ==
    /\ pc = "start"
    /\ bound' = {"performance"}
    /\ IF options.version
       THEN \* __print_revision logs the revision and exits OK
            /\ Terminate([exc |-> "SystemExit", code |-> OK,
                          lines |-> <<[kind |-> "revision"]>>])
            /\ UNCHANGED alarm
       ELSE /\ pc' = "init"
            /\ alarm' = IF IntSeconds(signal_timeout(options.timeout, network)) > 0
                        THEN "armed" ELSE "off"
            /\ UNCHANGED <<stdout, exit>>
    /\ UNCHANGED <<options, network, thresholds, caught,
                   rangeVars, thrVars, perfVars>>
    /\ UNCHANGED <<argVars, factVars>>

\* the rest of __init__: the thresholds and the aliases, self.options last
InitRest ==
    /\ pc = "init"
    /\ LET t == NagiosThresholds(options.warning, options.critical)
       IN  IF t.exc # "none"
           THEN /\ Terminate([exc |-> t.exc, code |-> 1, lines |-> <<>>])
                /\ UNCHANGED <<thresholds, bound>>
           ELSE /\ thresholds' = t.ret
                /\ bound' = bound \cup {"thresholds", "warning", "critical",
                                         "options", "args"}
                /\ pc' = "constructed"
                /\ UNCHANGED <<stdout, exit>>
    /\ UNCHANGED <<options, network, alarm, caught,
                   rangeVars, thrVars, perfVars>>
    /\ UNCHANGED <<argVars, factVars>>

\* plugin.check(): the wrapper enters its try and calls the check
CallCheck ==
    /\ pc = "constructed"
    /\ pc' = "check"
    /\ UNCHANGED <<options, network, bound, alarm, thresholds, caught,
                   stdout, exit, rangeVars, thrVars, perfVars>>
    /\ UNCHANGED <<argVars, factVars>>

\* the check calls self.performance.add_label(label, value)
CheckAddLabel ==
    /\ pc = "check"
    /\ Len(labels) < MaxLabels
    /\ \E label \in LabelNames, value \in CheckLabelValues :
          LET r == add_label(labels, label, value, "", "", "", "", "", FALSE)
          IN  /\ labels' = r.labels
              /\ IF r.res.exc # "none"
                 THEN pc' = "except" /\ caught' = r.res.exc
                 ELSE UNCHANGED <<pc, caught>>
    /\ UNCHANGED <<options, network, bound, alarm, thresholds,
                   stdout, exit, rangeVars, thrVars, addArgs, addRes, fmtRes>>
    /\ UNCHANGED <<argVars, factVars>>

\* the check enters a call that does not return (a sleep, a network read)
CheckBlocks ==
    /\ pc = "check"
    /\ pc' = "blocked"
    /\ UNCHANGED <<options, network, bound, alarm, thresholds, caught,
                   stdout, exit, rangeVars, thrVars, perfVars>>
    /\ UNCHANGED <<argVars, factVars>>

\* the check raises an exception of its own
CheckRaises ==
    /\ pc = "check"
    /\ pc' = "except"
    /\ caught' = "Exception"
    /\ UNCHANGED <<options, network, bound, alarm, thresholds,
                   stdout, exit, rangeVars, thrVars, perfVars>>
    /\ UNCHANGED <<argVars, factVars>>

\* the check ends: code = self.check_thresholds(value); self.die(code, info)
\* die cancels the alarm first; the SystemExit it raises passes through the
\* wrapper's `except SystemExit`, anything else enters its bare except
CheckDies ==
    /\ pc = "check"
    /\ \E value \in CheckValues :
          LET code == check_thresholds(thresholds, value)
              d    == die(labels, code.ret, CheckInfo, TRUE)
          IN  IF code.exc # "none"
              THEN /\ pc' = "except"
                   /\ caught' = code.exc
                   /\ UNCHANGED <<alarm, stdout, exit>>
              ELSE /\ alarm' = "off"
                   /\ IF d.exc = "SystemExit"
                      THEN Terminate(d) /\ UNCHANGED caught
                      ELSE /\ pc' = "except"
                           /\ caught' = d.exc
                           /\ UNCHANGED <<stdout, exit>>
    /\ UNCHANGED <<options, network, bound, thresholds,
                   rangeVars, thrVars, perfVars>>
    /\ UNCHANGED <<argVars, factVars>>

\* the wrapper's bare except: instance.die(UNKN, the traceback); whatever
\* die raises leaves the wrapper uncaught
HandlerDies ==
    /\ pc = "except"
    /\ alarm' = IF alarm = "fired" THEN "fired" ELSE "off"
    /\ Terminate(die(labels, UNKN, TracebackInfo, TRUE))
    /\ UNCHANGED <<options, network, bound, thresholds, caught,
                   rangeVars, thrVars, perfVars>>
    /\ UNCHANGED <<argVars, factVars>>

\* the positions of the main thread inside the wrapper's try, in the check
\* of a subclass and in the check of the factory
InsideTry == {"check", "blocked", "function", "returned", "labelled"}

\* SIGALRM arrives and __handle_sigalrm runs in the main thread; what it
\* raises is raised where the main thread was: inside the wrapper's try
\* the SystemExit is re-raised by `except SystemExit` and anything else
\* enters the bare except, elsewhere nothing catches it
AlarmFires ==
    /\ alarm = "armed"
    /\ pc \in {"init", "constructed", "except"} \cup InsideTry
    /\ alarm' = "fired"
    /\ LET e == handle_sigalrm(bound, options, labels)
       IN  IF pc \in InsideTry /\ e.exc # "SystemExit"
           THEN /\ pc' = "except"
                /\ caught' = e.exc
                /\ UNCHANGED <<stdout, exit>>
           ELSE Terminate(e) /\ UNCHANGED caught
    /\ UNCHANGED <<options, network, bound, thresholds,
                   rangeVars, thrVars, perfVars>>
    /\ UNCHANGED <<argVars, factVars>>

Next ==
    \/ InitToAlarm
    \/ InitRest
    \/ CallCheck
    \/ CheckAddLabel
    \/ CheckBlocks
    \/ CheckRaises
    \/ CheckDies
    \/ HandlerDies
    \/ AlarmFires

Spec == Init /\ [][Next]_vars

\* the main thread keeps running and an armed timer expires; nothing makes
\* the check itself go on
FairSpec ==
    /\ Spec
    /\ WF_vars(InitToAlarm)
    /\ WF_vars(InitRest)
    /\ WF_vars(CallCheck)
    /\ WF_vars(HandlerDies)
    /\ WF_vars(AlarmFires)

(***************************************************************************)
(* The factory process (SpecFactory): NagiosPluginFactory constructs the   *)
(* plugin as above, and its check, wrapped by UnhandledExceptionHandler,   *)
(* calls the check function, adds the perf_labels, classifies every value  *)
(* and dies with the most severe code.                                     *)
(***************************************************************************)
FactoryWarnings == {<<"1">>, <<"~", ":">>}

FactoryCriticals == {None, <<"1", "0">>}

\* the values a check function returns
FactoryValues == {PyNum(0), PyNum(5), PyNum(MaxPerfVal), PyStr}

FactoryMessages == {"a", StatusTemplate}

\* the sequences of (value, message) pairs a check function returns
Responses ==
    UNION {[1..n -> [value : FactoryValues, message : FactoryMessages]] :
              n \in 0..MaxResponses}

\* the perf_labels arguments: None or empty, or a list of names
PerfLabelArgs ==
    {[i \in 1..n |-> IF i % 2 = 1 THEN "temp" ELSE "load"] : n \in 0..MaxLabels}

FactoryInit ==
    /\ pc = "start"
    /\ options \in [warning : FactoryWarnings, critical : FactoryCriticals,
                     timeout : {0}, version : BOOLEAN]
    /\ network \in BOOLEAN
    /\ bound = {}
    /\ alarm = "off"
    /\ thresholds = NoThresholds
    /\ caught = "none"
    /\ stdout = <<>>
    /\ exit = Running
    /\ RangeIdle /\ ThrIdle /\ PerfIdle
    /\ ArgIdle /\ FactIdle

\* factory.check(perf_labels): the wrapper enters its try and check calls
\* the check function
FactoryCallCheck ==
    /\ pc = "constructed"
    /\ pc' = "function"
    /\ perf_labels' \in PerfLabelArgs
    /\ UNCHANGED <<options, network, bound, alarm, thresholds, caught,
                   stdout, exit, responses, rangeVars, thrVars, perfVars,
                   argVars>>

\* the check function raises an exception of its own
FunctionRaises ==
    /\ pc = "function"
    /\ pc' = "except"
    /\ caught' = "Exception"
    /\ UNCHANGED <<options, network, bound, alarm, thresholds,
                   stdout, exit, rangeVars, thrVars, perfVars, argVars,
                   factVars>>

\* the check function returns its sequence of (value, message) pairs
FunctionReturns ==
    /\ pc = "function"
    /\ pc' = "returned"
    /\ \E r \in Responses : responses' = Return(r)
    /\ UNCHANGED <<options, network, bound, alarm, thresholds, caught,
                   stdout, exit, perf_labels, rangeVars, thrVars, perfVars,
                   argVars>>

\* if perf_labels: the loop that adds one label per name
FactoryAddLabels ==
    /\ pc = "returned"
    /\ LET r == AddPerfLabels(labels, perf_labels, responses.ret, 1)
       IN  /\ labels' = r.labels
           /\ IF r.res.exc # "none"
              THEN pc' = "except" /\ caught' = r.res.exc
              ELSE pc' = "labelled" /\ UNCHANGED caught
    /\ UNCHANGED <<options, network, bound, alarm, thresholds,
                   stdout, exit, rangeVars, thrVars, addArgs, addRes, fmtRes,
                   argVars, factVars>>

\* the classification of every value and the die with the first of the
\* codes in descending order
FactoryDies ==
    /\ pc = "labelled"
    /\ LET d == factory_die(labels, thresholds, responses.ret)
       IN  /\ alarm' = IF d.called THEN "off" ELSE alarm
           /\ IF d.exc = "SystemExit"
              THEN Terminate(d) /\ UNCHANGED caught
              ELSE /\ pc' = "except"
                   /\ caught' = d.exc
                   /\ UNCHANGED <<stdout, exit>>
    /\ UNCHANGED <<options, network, bound, thresholds,
                   rangeVars, thrVars, perfVars, argVars, factVars>>

FactoryNext ==
    \/ InitToAlarm
    \/ InitRest
    \/ FactoryCallCheck
    \/ FunctionRaises
    \/ FunctionReturns
    \/ FactoryAddLabels
    \/ FactoryDies
    \/ HandlerDies
    \/ AlarmFires

SpecFactory == FactoryInit /\ [][FactoryNext]_vars

(***************************************************************************)
(* The argument parser (SpecArgs): one command line with -v repeated, and  *)
(* parse_args on it.                                                       *)
(***************************************************************************)
ArgsInit ==
    /\ argv \in 0..MaxVerbose
    /\ parsed = Pending
    /\ RangeIdle /\ ThrIdle /\ PerfIdle /\ ProcIdle /\ FactIdle

ParseArgs ==
    /\ parsed = Pending
    /\ parsed' = parse_args(argv)
    /\ UNCHANGED <<argv, rangeVars, thrVars, perfVars, procVars, factVars>>

ArgsNext == ParseArgs

SpecArgs == ArgsInit /\ [][ArgsNext]_vars

(***************************************************************************)
(* Claims about NagiosRange, checked under SpecRange.                      *)
(***************************************************************************)
\* the expression without its leading '@'
Body(e) == IF Len(e) > 0 /\ e[1] = "@" THEN Tail(e) ELSE e

HasOneColon(e) == Cardinality({i \in 1..Len(e) : e[i] = ":"}) = 1

ColonAt(e) == CHOOSE i \in 1..Len(e) : e[i] = ":"

StartText(e) == SubSeq(e, 1, ColonAt(e) - 1)

EndText(e) == SubSeq(e, ColonAt(e) + 1, Len(e))

\* v lies in the inclusive interval the expression e denotes: 'N' is [0, N],
\* 'a:' is [a, +inf), '~:b' is (-inf, b], 'a:b' is [a, b]
InInterval(e, v) ==
    IF ~HasOneColon(e) THEN 0 <= v /\ v <= FloatOf(e)
    ELSE /\ StartText(e) = <<"~">> \/ FloatOf(StartText(e)) <= v
         /\ EndText(e) = <<>> \/ v <= FloatOf(EndText(e))

\* one of the four forms 'N', 'a:', '~:b', 'a:b'
ListedForm(e) ==
    ~(HasOneColon(e) /\ StartText(e) = <<"~">> /\ EndText(e) = <<>>)

RangeChecked ==
    /\ rangeArg # None
    /\ rangeNew.exc = "none"
    /\ checkRes # Pending
    /\ IsNumber(checkArg)

\* C1: for a successfully parsed expression without a leading '@' and a
\* numeric value v, check_range(v) is true exactly when v lies outside the
\* inclusive interval the expression denotes ('N' [0, N], 'a:' [a, +inf),
\* '~:b' (-inf, b], 'a:b' [a, b]); for each of these four forms the call
\* returns a boolean, so a value equal to an endpoint is not alerting.
C1_OutsideIntervalAlerts ==
    (RangeChecked /\ rangeArg[1] # "@") =>
        /\ (checkRes = Return(TRUE)) <=> ~InInterval(rangeArg, checkArg.val)
        /\ ListedForm(rangeArg) => checkRes.exc = "none"

\* '-1:1' checked at its upper endpoint 1 is not alerting
C1_Witness ==
    /\ RangeChecked
    /\ rangeArg = <<"-", "1", ":", "1">>
    /\ checkArg = PyNum(1)
    /\ checkRes = Return(FALSE)

\* C8: a range parsed from a non-absent expression never has both
\* start_infinity and end_infinity: exactly one of (negative infinity with an
\* explicit upper bound), (explicit lower bound with positive infinity),
\* (both bounds explicit) holds.
C8_AtMostOneInfiniteBound ==
    (rangeArg # None /\ rangeNew.exc = "none") =>
        ~(rangeNew.ret.start_infinity /\ rangeNew.ret.end_infinity)

\* the malformations of an expression e (its leading '@' stripped)
NonNumericSingleEndpoint(e) == ~HasOneColon(e) /\ ~IsFloat(e)

NonNumericStart(e) ==
    HasOneColon(e) /\ StartText(e) # <<"~">> /\ ~IsFloat(StartText(e))

NonNumericEnd(e) ==
    HasOneColon(e) /\ EndText(e) # <<>> /\ ~IsFloat(EndText(e))

\* C10: parsing fails with the invalid-range error whenever the expression
\* is malformed: a non-numeric single endpoint (which covers a second
\* colon), a non-numeric start other than '~', a non-empty non-numeric end
\* (which covers trailing garbage such as '1:1@'); each is reported by its
\* own message, the start before the end.
C10_MalformedIsRejected ==
    (rangeArg # None /\ rangeNew # Pending) =>
        LET e == Body(rangeArg) IN
        /\ NonNumericSingleEndpoint(e) =>
               rangeNew = Raise("NagiosPluginError: Invalid range definition")
        /\ NonNumericStart(e) =>
               rangeNew = Raise("NagiosPluginError: Invalid start value")
        /\ (NonNumericEnd(e) /\ ~NonNumericStart(e)) =>
               rangeNew = Raise("NagiosPluginError: Invalid end value")

\* '1:1@' (trailing garbage) was rejected as an invalid end value
C10_Witness ==
    /\ rangeArg = <<"1", ":", "1", "@">>
    /\ rangeNew = Raise("NagiosPluginError: Invalid end value")

\* X is an expression of the grammar NUMBER | NUMBER ':' [NUMBER] |
\* '~' ':' NUMBER
ValidExpr(e) ==
    IF HasOneColon(e)
    THEN /\ StartText(e) = <<"~">> \/ IsFloat(StartText(e))
         /\ EndText(e) = <<>> \/ IsFloat(EndText(e))
         /\ ListedForm(e)
    ELSE IsFloat(e)

\* C11: a leading '@' inverts the polarity and nothing else: for every
\* valid expression X without '@' and every numeric value v, check_range of
\* '@X' on v is the negation of check_range of 'X' on v, so '@a:b' alerts
\* exactly when v lies in the interval X denotes (a <= v <= b).
C11_AtInvertsPolarity ==
    (rangeArg # None /\ Len(rangeArg) > 0 /\ rangeArg[1] = "@"
        /\ ValidExpr(Tail(rangeArg)) /\ rangeNew # Pending) =>
        /\ rangeNew.exc = "none"
        /\ rangeNew.ret =
               [NagiosRange(Tail(rangeArg), "unknown").ret
                    EXCEPT !.inside = TRUE, !.range = rangeArg]
        /\ (checkRes # Pending /\ IsNumber(checkArg)) =>
               /\ checkRes = Return(InInterval(Tail(rangeArg), checkArg.val))
               /\ checkRes =
                      Return(~check_range(NagiosRange(Tail(rangeArg),
                                                      "unknown").ret,
                                          checkArg).ret)

\* '@0:1' checked at 1, inside the interval, alerts
C11_Witness ==
    /\ rangeArg = <<"@", "0", ":", "1">>
    /\ checkArg = PyNum(1)
    /\ checkRes = Return(TRUE)

\* C12: a disabled range (constructed with no expression) reports
\* not-alerting for every numeric value.
C12_DisabledNeverAlerts ==
    (rangeArg = None /\ rangeNew # Pending) =>
        /\ rangeNew.exc = "none"
        /\ (checkRes # Pending /\ IsNumber(checkArg)) =>
               checkRes = Return(FALSE)

\* the disabled range was checked at -1, below its default start 0
C12_Witness ==
    /\ rangeArg = None
    /\ checkArg = PyNum(0 - 1)
    /\ checkRes = Return(FALSE)

\* C16: a disabled range renders as the empty string and every parsed range
\* renders as its original expression verbatim, leading '@' included,
\* whether or not it has been evaluated; parsing keeps the text it was given.
C16_StrIsOriginalText ==
    /\ rangeNew.exc = "none" => rangeNew.ret.range = rangeArg
    /\ strRes # Pending =>
           strRes = Return(IF rangeArg = None THEN <<>> ELSE rangeArg)

\* '@1:' was evaluated and then rendered as '@1:'
C16_Witness ==
    /\ rangeArg = <<"@", "1", ":">>
    /\ checkRes # Pending
    /\ strRes = Return(<<"@", "1", ":">>)

(***************************************************************************)
(* Claims about the thresholds, checked under SpecThresholds.              *)
(***************************************************************************)
\* the range r alerts on v: check_range returned True
Alerts(r, v) == check_range(r, v) = Return(TRUE)

ThresholdsChecked ==
    /\ thrNew.exc = "none"
    /\ thrCode # Pending
    /\ IsNumber(thrValue)

\* C2: for every numeric value and every pair of ranges, check_thresholds
\* returns CRITICAL if the critical range alerts on the value, otherwise
\* WARNING if the warning range alerts, otherwise OK.
C2_FixedPriority ==
    ThresholdsChecked =>
        thrCode = Return(IF Alerts(thrNew.ret.critical, thrValue) THEN CRIT
                         ELSE IF Alerts(thrNew.ret.warning, thrValue) THEN WARN
                         ELSE OK)

\* the side of the thresholds built from the expression e
SideAsConfigured(side, e, type) ==
    IF NagiosRange(e, type).exc = "none"
    THEN side = NagiosRange(e, type).ret
    ELSE /\ side.range = None
         /\ \A v \in Values : IsNumber(v) => check_range(side, v) = Return(FALSE)

\* C9: constructing NagiosThresholds never raises, whatever the two
\* expressions are; a side whose expression fails to parse is a disabled
\* range, not alerting for any value, and a side whose expression parses is
\* the range NagiosRange makes of that expression alone.
C9_ConstructionNeverRaises ==
    thrNew # Pending =>
        /\ thrNew.exc = "none"
        /\ SideAsConfigured(thrNew.ret.warning, thrArgs[1], "warning")
        /\ SideAsConfigured(thrNew.ret.critical, thrArgs[2], "critical")

\* NagiosThresholds('x', '10'): the warning side is disabled, the critical
\* side is the range '10'
C9_Witness ==
    /\ thrArgs = <<(<<"x">>), (<<"1", "0">>)>>
    /\ thrNew.exc = "none"
    /\ thrNew.ret.warning.range = None
    /\ thrNew.ret.critical.range = <<"1", "0">>
    /\ thrNew.ret.critical.end = 10

(***************************************************************************)
(* Claims about the performance set, checked under SpecPerf.               *)
(***************************************************************************)
\* C3: label names are unique within a performance set: after any sequence
\* of add_label calls no two stored labels have the same name.
C3_LabelNamesUnique ==
    \A i, j \in 1..Len(labels) :
        labels[i].label = labels[j].label => i = j

DecimalDigits == {"0", "1", "2", "3", "4", "5", "6", "7", "8", "9"}

\* the natural number a string of decimal digits denotes
RECURSIVE DecimalValue(_)
DecimalValue(t) ==
    IF Len(t) = 0 THEN 0
    ELSE 10 * DecimalValue(SubSeq(t, 1, Len(t) - 1))
         + (CHOOSE d \in 0..9 :
                <<"0", "1", "2", "3", "4", "5", "6", "7", "8", "9">>[d + 1]
                    = t[Len(t)])

\* t is the number n written with exactly two decimals
TwoDecimals(t, n) ==
    /\ Len(t) >= 4
    /\ t[Len(t) - 2] = "."
    /\ \A i \in (1..Len(t)) \ {Len(t) - 2} : t[i] \in DecimalDigits
    /\ 100 * DecimalValue(SubSeq(t, 1, Len(t) - 3))
           + DecimalValue(SubSeq(t, Len(t) - 1, Len(t))) = 100 * n

\* e is the entry of the label l: 'name'=value, the unit, and the four
\* fields warn;crit;min;max, each after its ';' even when empty
EntryOf(l, e) ==
    /\ Len(e) >= 16
    /\ SubSeq(e, 1, 3) = <<"'", l.label, "'=">>
    /\ TwoDecimals(SubSeq(e, 4, Len(e) - 9), l.value.val)
    /\ SubSeq(e, Len(e) - 8, Len(e)) =
           <<l.uom, ";", l.warn, ";", l.crit, ";", l.min, ";", l.max>>

\* out is one entry per label of ls, in the order of ls, separated by
\* single spaces
RECURSIVE EntriesOf(_, _)
EntriesOf(ls, out) ==
    IF Len(ls) = 0 THEN out = <<>>
    ELSE \E k \in 1..Len(out) :
            /\ EntryOf(ls[1], SubSeq(out, 1, k))
            /\ IF Len(ls) = 1 THEN k = Len(out)
               ELSE /\ k + 2 <= Len(out)
                    /\ out[k + 1] = " "
                    /\ EntriesOf(Tail(ls), SubSeq(out, k + 2, Len(out)))

AllNumeric(ls) == \A i \in 1..Len(ls) : IsNumber(ls[i].value)

\* C14: format_performance returns '' for an empty set and, for a non-empty
\* set of labels with numeric values, '|' followed by one entry per stored
\* label, space-separated, in insertion order, each entry being 'name'=value
\* with two decimals, the unit, and the four ';'-delimited fields
\* warn;crit;min;max, present even when empty.
C14_PerformanceSuffix ==
    (fmtRes # Pending /\ AllNumeric(labels)) =>
        /\ fmtRes.exc = "none"
        /\ IF Len(labels) = 0 THEN fmtRes.ret = <<>>
           ELSE /\ fmtRes.ret[1] = "|"
                /\ EntriesOf(labels, Tail(fmtRes.ret))

\* two labels, the first with a warn field and a unit, the second with
\* every field empty, were formatted
C14_Witness ==
    /\ Len(labels) = 2
    /\ labels[1].warn = "5" /\ labels[1].uom = "ms"
    /\ labels[1].value = PyNum(MaxPerfVal)
    /\ labels[2].warn = "" /\ labels[2].uom = ""
    /\ fmtRes.exc = "none"

InvalidUom == Raise("NagiosPluginError: Invalid UOM")

\* the closed set of units of measure
ClosedUoms == {"", "s", "us", "ms", "%", "B", "KB", "MB", "GB", "TB", "c"}

\* a step in which add_label was called: it left a new outcome, or left the
\* invalid-unit error
AddLabelCalled ==
    \/ <<labels, addArgs, addRes>>' # <<labels, addArgs, addRes>>
    \/ addRes' = InvalidUom

\* C15: add_label fails with the invalid-unit error exactly when strict is
\* set and the unit is not in the closed set; on that failure the set is
\* unchanged; with strict off every unit is accepted and the label stored.
C15_StrictUnitCheck ==
    [][AddLabelCalled =>
          IF addArgs'.strict /\ addArgs'.uom \notin ClosedUoms
          THEN addRes' = InvalidUom /\ labels' = labels
          ELSE /\ addRes' = Return(None)
               /\ Len(labels') = Len(labels) + 1
               /\ labels'[Len(labels')].uom = addArgs'.uom
               /\ labels'[Len(labels')].label = addArgs'.label
               /\ SubSeq(labels', 1, Len(labels)) = labels]_vars

\* with one label stored, a strict add_label with the unit 'S' was refused
C15_Witness ==
    /\ Len(labels) = 1
    /\ addArgs.strict /\ addArgs.uom = "S"
    /\ addRes = InvalidUom

(***************************************************************************)
(* Claims about the plugin process, checked under Spec and FairSpec.       *)
(***************************************************************************)
StatusLines == SelectSeq(stdout, LAMBDA l : l.kind = "status")

\* C4: a failure raised during a check wrapped by UnhandledExceptionHandler
\* ends, whatever performance labels were added, with one status line
\* reporting UNKNOWN and exit code 3.  (Stated for the runs in which the
\* alarm does not fire, where nothing but the failure decides the end.)
C4_FailureEndsUnknown ==
    (pc = "exited" /\ caught # "none" /\ alarm # "fired") =>
        /\ Len(StatusLines) = 1
        /\ StatusLines[1].status = "UNKNOWN"
        /\ exit = [code |-> UNKN, traceback |-> FALSE]

\* C5: if the check does not complete, then for every configured timeout
\* and both network modes the process eventually terminates; the claim
\* adds that it does so with the CRITICAL code and the timed-out message.
C5_TimeoutTerminates ==
    (pc = "blocked" /\ options.timeout > 0) ~> (pc = "exited")

\* C6: every run of a check that ends (threshold alert, unhandled exception
\* or timeout, the plugin having been constructed) emits exactly one status
\* line, never zero and never two, and exits with one of the codes 0, 1, 2,
\* 3, under every interleaving of the alarm with the check and with die.
C6_ExactlyOneStatusLine ==
    (pc = "exited" /\ "options" \in bound) =>
        /\ Len(StatusLines) = 1
        /\ exit.code \in {OK, WARN, CRIT, UNKN}

\* C7 as stated: the severity word of every status line is one of OK,
\* WARNING, CRITICAL, UNKNOWN and is the word of the exit code, on every
\* path through die including the timeout path.
C7_WordOfExitCode ==
    \A i \in 1..Len(StatusLines) :
        /\ StatusLines[i].status \in {"OK", "WARNING", "CRITICAL", "UNKNOWN"}
        /\ pc = "exited"
        /\ StatusLines[i].status = codewords[exit.code]

\* C7 amended: every status line names the plugin and is the last thing
\* the process does before it exits with the code die was given; its word
\* is the word of that exit code (0 OK, 1 WARNING, 2 CRITICAL, 3 UNKNOWN)
\* when die cancels the alarm, and the literal SIGALRM, with exit code 2,
\* on the timeout path.
C7_WordOfExitCodeOrSigalrm ==
    \A i \in 1..Len(StatusLines) :
        /\ StatusLines[i].service = Service
        /\ pc = "exited"
        /\ exit.traceback = FALSE
        /\ IF StatusLines[i].info.kind = "timed out"
           THEN /\ StatusLines[i].status = "SIGALRM"
                /\ exit.code = CRIT
                /\ alarm = "fired"
           ELSE /\ StatusLines[i].status = codewords[exit.code]
                /\ StatusLines[i].status \in
                       {"OK", "WARNING", "CRITICAL", "UNKNOWN"}

\* the timeout path was taken during a check that had added a label: the
\* line reads SIGALRM and the code is 2
C7_Witness ==
    /\ pc = "exited"
    /\ Len(labels) > 0
    /\ Len(StatusLines) = 1
    /\ StatusLines[1].info.kind = "timed out"
    /\ StatusLines[1].status = "SIGALRM"
    /\ exit.code = CRIT

\* C18: whenever the alarm can fire, the attributes its handler reads are
\* initialised: in every interleaving of the alarm with the construction of
\* the plugin, self.options and self.performance are bound while the alarm
\* is armed, so the handler can run to completion.
C18_HandlerStateBoundWhileArmed ==
    alarm = "armed" => {"options", "performance"} \subseteq bound

(***************************************************************************)
(* Claims about the argument parser, checked under SpecArgs.               *)
(***************************************************************************)
\* C17: for every number of repetitions of -v, the verbosity level that
\* parse_args leaves is one of the four levels LOG0=103, LOG1=102, LOG2=101,
\* LOG3=100.
C17_VerbosityIsOneOfFourLevels ==
    parsed # Pending => parsed.ret \in {LOG0, LOG1, LOG2, LOG3}

(***************************************************************************)
(* Claims about the factory, checked under SpecFactory.                    *)
(***************************************************************************)
\* the classification of one value under the thresholds of the plugin
Severity(v) ==
    IF Alerts(thresholds.critical, v) THEN CRIT
    ELSE IF Alerts(thresholds.warning, v) THEN WARN
    ELSE OK

\* the most severe of the classifications of the returned values
MaxSeverity ==
    LET each == {Severity(responses.ret[i].value) :
                    i \in 1..Len(responses.ret)}
    IN  CHOOSE c \in each : \A d \in each : d <= c

\* the message of the i-th pair as it is reported
ReportedMessage(i) ==
    LET r == responses.ret[i]
    IN  IF r.message = "%(status)s" THEN codewords[Severity(r.value)]
        ELSE r.message

\* the check evaluated the returned pairs and ended through its own die
FactoryEvaluated ==
    /\ pc = "exited"
    /\ responses # Pending
    /\ caught = "none"
    /\ alarm # "fired"

\* C13: when one check evaluates a non-empty sequence of (value, message)
\* pairs, the exit severity is the maximum of the individual classifications
\* and the info text is the per-value messages joined by ', ' in their
\* original order, whatever their severities.
C13_MaxSeverityAndJoinedMessages ==
    (FactoryEvaluated /\ Len(responses.ret) > 0) =>
        /\ Len(StatusLines) = 1
        /\ exit.code = MaxSeverity
        /\ StatusLines[1].status = codewords[MaxSeverity]
        /\ StatusLines[1].info.kind = "messages"
        /\ LET text == StatusLines[1].info.text
               n    == Len(responses.ret)
           IN  /\ Len(text) = 2 * n - 1
               /\ \A i \in 1..n : text[2 * i - 1] = ReportedMessage(i)
               /\ \A i \in 1..(n - 1) : text[2 * i] = ", "

\* a WARNING value with the message 'a' followed by a CRITICAL value with
\* the status template: the run ended CRITICAL with 'a, CRITICAL'
C13_Witness ==
    /\ FactoryEvaluated
    /\ responses = Return(<<[value |-> PyNum(5), message |-> "a"],
                            [value |-> PyNum(MaxPerfVal),
                             message |-> "%(status)s"]>>)
    /\ options.warning = <<"1">> /\ options.critical = <<"1", "0">>
    /\ exit.code = CRIT
    /\ StatusLines[1].info.text = <<"a", ", ", "CRITICAL">>

\* C19: when the check function returned an empty sequence, or fewer
\* pairs than perf_labels names labels, the run ends with one UNKNOWN
\* status line and exit code 3.  (Stated for the runs in which the alarm
\* does not fire.)
C19_EmptyOrShortEndsUnknown ==
    (/\ pc = "exited"
     /\ responses # Pending
     /\ alarm # "fired"
     /\ Len(responses.ret) = 0 \/ Len(perf_labels) > Len(responses.ret)) =>
        /\ Len(StatusLines) = 1
        /\ StatusLines[1].status = "UNKNOWN"
        /\ exit.code = UNKN

============================================================================
